---- MODULE Spec2Model ----
(***************************************************************************)
(* Audio fingerprint application (app.py): spectrogram -> peaks -> hashes  *)
(* -> SQLite table "fingerprints" -> identification by vote counting.      *)
(*                                                                         *)
(* The hash of a peak pair is the first 10 hex digits of the SHA-256 of    *)
(* the string "f1-f2-dt"; SHA-256 (FIPS 180-4) is computed here on 32-bit  *)
(* words held as two 16-bit halves.                                        *)
(***************************************************************************)
EXTENDS Integers, Sequences, FiniteSets, TLC

(* ------------------------------ bounds --------------------------------- *)
NumFreq == 2
NumTime == 2
MaxRows == 3

(* -------------------------- program constants -------------------------- *)
DefaultThreshold == -40
PrefixLen == 10

(* ------------------------------ SHA-256 -------------------------------- *)
(* A 32-bit word is a pair <<hi, lo>> of 16-bit halves. *)
Half == 0..65535
Word == Half \X Half

Xor16[n \in Nat, a \in Half, b \in Half] ==
    IF n = 0 THEN 0
    ELSE 2 * Xor16[n - 1, a \div 2, b \div 2] + ((a + b) % 2)

And16[n \in Nat, a \in Half, b \in Half] ==
    IF n = 0 THEN 0
    ELSE 2 * And16[n - 1, a \div 2, b \div 2] + ((a % 2) * (b % 2))

Xor[a \in Word, b \in Word] == <<Xor16[16, a[1], b[1]], Xor16[16, a[2], b[2]]>>
And[a \in Word, b \in Word] == <<And16[16, a[1], b[1]], And16[16, a[2], b[2]]>>
Not[a \in Word] == <<65535 - a[1], 65535 - a[2]>>

RotR[a \in Word, n \in 0..31] ==
    LET x == IF n >= 16 THEN <<a[2], a[1]>> ELSE a
        k == n % 16
    IN  <<(x[1] \div 2^k) + (x[2] % 2^k) * 2^(16 - k),
          (x[2] \div 2^k) + (x[1] % 2^k) * 2^(16 - k)>>

ShR[a \in Word, n \in 0..15] ==
    <<a[1] \div 2^n, (a[2] \div 2^n) + (a[1] % 2^n) * 2^(16 - n)>>

Add[a \in Word, b \in Word] ==
    LET lo == a[2] + b[2]
        hi == a[1] + b[1] + (lo \div 65536)
    IN  <<hi % 65536, lo % 65536>>

SHA256_H0 ==
    <<
       <<27145, 58983>>, <<47975, 44677>>, <<15470, 62322>>, <<42319, 62778>>,
       <<20750, 21119>>, <<39685, 26764>>, <<8067, 55723>>, <<23520, 52505>>
    >>

SHA256_K ==
    <<
       <<17034, 12184>>, <<28983, 17553>>, <<46528, 64463>>, <<59829, 56229>>,
       <<14678, 49755>>, <<23025, 4593>>, <<37439, 33444>>, <<43804, 24277>>,
       <<55303, 43672>>, <<4739, 23297>>, <<9265, 34238>>, <<21772, 32195>>,
       <<29374, 23924>>, <<32990, 45566>>, <<39900, 1703>>, <<49563, 61812>>,
       <<58523, 27073>>, <<61374, 18310>>, <<4033, 40390>>, <<9228, 41420>>,
       <<11753, 11375>>, <<19060, 33962>>, <<23728, 43484>>, <<30457, 35034>>,
       <<38974, 20818>>, <<43057, 50797>>, <<45059, 10184>>, <<48985, 32711>>,
       <<50912, 3059>>, <<54695, 37191>>, <<1738, 25425>>, <<5161, 10599>>,
       <<10167, 2693>>, <<11803, 8504>>, <<19756, 28156>>, <<21304, 3347>>,
       <<25866, 29524>>, <<30314, 2747>>, <<33218, 51502>>, <<37490, 11397>>,
       <<41663, 59553>>, <<43034, 26187>>, <<49739, 35696>>, <<51052, 20899>>,
       <<53650, 59417>>, <<54937, 1572>>, <<62478, 13701>>, <<4202, 41072>>,
       <<6564, 49430>>, <<7735, 27656>>, <<10056, 30540>>, <<13488, 48309>>,
       <<14620, 3251>>, <<20184, 43594>>, <<23452, 51791>>, <<26670, 28659>>,
       <<29839, 33518>>, <<30885, 25455>>, <<33992, 30740>>, <<36039, 520>>,
       <<37054, 65530>>, <<42064, 27883>>, <<48889, 41975>>, <<50801, 30962>>
    >>

Ch[x \in Word, y \in Word, z \in Word] == Xor[And[x, y], And[Not[x], z]]
Maj[x \in Word, y \in Word, z \in Word] == Xor[Xor[And[x, y], And[x, z]], And[y, z]]
BigSigma0[x \in Word] == Xor[Xor[RotR[x, 2], RotR[x, 13]], RotR[x, 22]]
BigSigma1[x \in Word] == Xor[Xor[RotR[x, 6], RotR[x, 11]], RotR[x, 25]]
SmallSigma0[x \in Word] == Xor[Xor[RotR[x, 7], RotR[x, 18]], ShR[x, 3]]
SmallSigma1[x \in Word] == Xor[Xor[RotR[x, 17], RotR[x, 19]], ShR[x, 10]]

(* FIPS 180-4 padding: 0x80, zeros up to 56 mod 64, 64-bit bit length. *)
RECURSIVE Zeros(_)
Zeros(n) == IF n = 0 THEN << >> ELSE <<0>> \o Zeros(n - 1)

Pad(bytes) ==
    LET n == Len(bytes)
        z == (64 - ((n + 9) % 64)) % 64
        bitlen == 8 * n
    IN  bytes \o <<128>> \o Zeros(z) \o Zeros(4)
          \o << (bitlen \div 16777216) % 256, (bitlen \div 65536) % 256,
                (bitlen \div 256) % 256, bitlen % 256 >>

BlockWords(padded, b) ==
    [t \in 1..16 |->
        LET o == 64 * (b - 1) + 4 * (t - 1)
        IN  <<256 * padded[o + 1] + padded[o + 2],
              256 * padded[o + 3] + padded[o + 4]>>]

(* Message schedule: extend the 16 block words by n further words.  The two
   halves are bound through singleton sets so that each is evaluated to a
   value before the next starts (likewise in Rounds and Compress). *)
ScheduleWord(w) ==
    LET t == Len(w) + 1
    IN  Add[Add[SmallSigma1[w[t - 2]], w[t - 7]],
            Add[SmallSigma0[w[t - 15]], w[t - 16]]]

RECURSIVE Schedule(_, _)
Schedule(w, n) ==
    IF n = 0 THEN w
    ELSE IF n = 1 THEN Append(w, ScheduleWord(w))
    ELSE CHOOSE r \in {Schedule(v, n - (n \div 2)) : v \in {Schedule(w, n \div 2)}} : TRUE

(* One round of the compression function on the working variables a..h. *)
Round(s, w, t) ==
    LET t1 == Add[Add[Add[s[8], BigSigma1[s[5]]],
                      Add[Ch[s[5], s[6], s[7]], SHA256_K[t]]],
                  w[t]]
        t2 == Add[BigSigma0[s[1]], Maj[s[1], s[2], s[3]]]
    IN  <<Add[t1, t2], s[1], s[2], s[3], Add[s[4], t1], s[5], s[6], s[7]>>

(* Rounds lo..hi in order. *)
RECURSIVE Rounds(_, _, _, _)
Rounds(s, w, lo, hi) ==
    IF lo = hi THEN Round(s, w, lo)
    ELSE LET mid == (lo + hi) \div 2
         IN  CHOOSE r \in {Rounds(v, w, mid + 1, hi) : v \in {Rounds(s, w, lo, mid)}} : TRUE

Compress(h, block) ==
    CHOOSE r \in {[i \in 1..8 |-> Add[h[i], s[i]]] :
                     s \in {Rounds(h, w, 1, 64) : w \in {Schedule(block, 48)}}} : TRUE

RECURSIVE Blocks(_, _, _)
Blocks(h, padded, b) ==
    IF 64 * (b - 1) >= Len(padded) THEN h
    ELSE Blocks(Compress(h, BlockWords(padded, b)), padded, b + 1)

sha256(bytes) ==
    Blocks(SHA256_H0, Pad(bytes), 1)

HexChars == <<"0", "1", "2", "3", "4", "5", "6", "7",
              "8", "9", "a", "b", "c", "d", "e", "f">>

RECURSIVE HexPrefix(_, _)
HexPrefix(digest, n) ==
    IF n = 0 THEN ""
    ELSE LET k == n - 1
             w == digest[(k \div 8) + 1]
             j == k % 8
             nib == (w[(j \div 4) + 1] \div 2^(4 * (3 - (j % 4)))) % 16
         IN  HexPrefix(digest, k) \o HexChars[nib + 1]

(* ------------------- f"{f1}-{f2}-{t2 - t1}".encode() ------------------- *)
(* Decimal digits of an int as ASCII codes; 45 is "-". *)
RECURSIVE Digits(_)
Digits(n) == IF n < 10 THEN <<48 + n>> ELSE Digits(n \div 10) \o <<48 + (n % 10)>>
FormatInt(n) == IF n < 0 THEN <<45>> \o Digits(-n) ELSE Digits(n)

hash_string(f1, f2, dt) ==
    FormatInt(f1) \o <<45>> \o FormatInt(f2) \o <<45>> \o FormatInt(dt)

hexdigest_prefix(f1, f2, dt) ==
    HexPrefix(sha256(hash_string(f1, f2, dt)), PrefixLen)

(* ------------------------------- inputs -------------------------------- *)
FreqBins == 0..(NumFreq - 1)
TimeFrames == 0..(NumTime - 1)
Magnitudes == {DefaultThreshold - 10, DefaultThreshold, DefaultThreshold + 10}
Thresholds == {DefaultThreshold - 10, DefaultThreshold, DefaultThreshold + 10}
Spectrograms == [FreqBins \X TimeFrames -> Magnitudes]
SongNames == {"", "A", "B"}

(* The digests of the keys a scan of the grid can produce, computed once. *)
HashKeys == FreqBins \X FreqBins \X TimeFrames

HashTable ==
    CHOOSE t \in {{<<key, hexdigest_prefix(key[1], key[2], key[3])>> : key \in HashKeys}} : TRUE

fingerprint_hash(f1, f2, dt) ==
    IF <<f1, f2, dt>> \in HashKeys
    THEN (CHOOSE p \in HashTable : p[1] = <<f1, f2, dt>>)[2]
    ELSE hexdigest_prefix(f1, f2, dt)

(* ------------------------ get_peaks_from_spectrogram ------------------- *)
(* Variant: a cell equal to the threshold counts as a peak (>= for >). *)
RECURSIVE ScanPeaksInclusive(_, _, _, _, _)
ScanPeaksInclusive(S, thr, time_index, freq_index, acc) ==
    IF time_index >= NumTime THEN acc
    ELSE IF freq_index >= NumFreq
         THEN ScanPeaksInclusive(S, thr, time_index + 1, 0, acc)
    ELSE ScanPeaksInclusive(S, thr, time_index, freq_index + 1,
                            IF S[freq_index, time_index] >= thr
                            THEN Append(acc, <<time_index, freq_index>>)
                            ELSE acc)

RECURSIVE ScanPeaks(_, _, _, _, _)
ScanPeaks(S, thr, time_index, freq_index, acc) ==
    IF time_index >= NumTime THEN acc
    ELSE IF freq_index >= NumFreq THEN ScanPeaks(S, thr, time_index + 1, 0, acc)
    ELSE ScanPeaks(S, thr, time_index, freq_index + 1,
                   IF S[freq_index, time_index] > thr
                   THEN Append(acc, <<time_index, freq_index>>)
                   ELSE acc)

(* Variant: the comparison reversed (< for >). *)
RECURSIVE ScanPeaksBelow(_, _, _, _, _)
ScanPeaksBelow(S, thr, time_index, freq_index, acc) ==
    IF time_index >= NumTime THEN acc
    ELSE IF freq_index >= NumFreq
         THEN ScanPeaksBelow(S, thr, time_index + 1, 0, acc)
    ELSE ScanPeaksBelow(S, thr, time_index, freq_index + 1,
                        IF S[freq_index, time_index] < thr
                        THEN Append(acc, <<time_index, freq_index>>)
                        ELSE acc)

get_peaks_reversed(S, thr) == ScanPeaksBelow(S, thr, 0, 0, << >>)

get_peaks_from_spectrogram(S, thr) == ScanPeaks(S, thr, 0, 0, << >>)

(* ----------------------------- generate_hashes ------------------------- *)
(* Variant: the two frequency bins of a pair swapped in the hash string. *)
RECURSIVE HashPairsSwapped(_, _, _)
HashPairsSwapped(pks, i, acc) ==
    IF i > Len(pks) - 1 THEN acc
    ELSE HashPairsSwapped(pks, i + 1,
                          Append(acc, fingerprint_hash(pks[i + 1][2], pks[i][2],
                                                       pks[i + 1][1] - pks[i][1])))

RECURSIVE HashPairs(_, _, _)
HashPairs(pks, i, acc) ==
    IF i > Len(pks) - 1 THEN acc
    ELSE HashPairs(pks, i + 1,
                   Append(acc, fingerprint_hash(pks[i][2], pks[i + 1][2],
                                                pks[i + 1][1] - pks[i][1])))

generate_hashes(pks) == HashPairs(pks, 1, << >>)

(* ---------------------------- store_fingerprints ----------------------- *)
(* Rows of table fingerprints in rowid order; id is AUTOINCREMENT. *)
RECURSIVE InsertRows(_, _, _, _)
InsertRows(rows, name, hs, i) ==
    IF i > Len(hs) THEN rows
    ELSE InsertRows(Append(rows, [id |-> Len(rows) + 1, song_name |-> name,
                                  hash |-> hs[i]]),
                    name, hs, i + 1)

(* Variant: a (song_name, hash) pair already in the table is not inserted again. *)
RECURSIVE InsertRowsUnique(_, _, _, _)
InsertRowsUnique(rows, name, hs, i) ==
    IF i > Len(hs) THEN rows
    ELSE InsertRowsUnique(
             IF \E k \in 1..Len(rows) :
                    rows[k].song_name = name /\ rows[k].hash = hs[i]
             THEN rows
             ELSE Append(rows, [id |-> Len(rows) + 1, song_name |-> name,
                                hash |-> hs[i]]),
             name, hs, i + 1)

store_fingerprints_unique(rows, name, hs) == InsertRowsUnique(rows, name, hs, 1)

store_fingerprints(rows, name, hs) == InsertRows(rows, name, hs, 1)

(* ------------------------------ identify_song -------------------------- *)
(* matched_songs is a dict: a sequence of <<key, count>> in insertion order. *)
DictGet(d, key, default) ==
    IF \E k \in 1..Len(d) : d[k][1] = key
    THEN d[CHOOSE k \in 1..Len(d) : d[k][1] = key][2]
    ELSE default

DictSet(d, key, val) ==
    IF \E k \in 1..Len(d) : d[k][1] = key
    THEN [k \in 1..Len(d) |-> IF d[k][1] = key THEN <<key, val>> ELSE d[k]]
    ELSE Append(d, <<key, val>>)

(* Variant: only the first matching row is fetched (fetchone for fetchall). *)
SelectFirstSong(rows, hash_val) ==
    LET all == SelectSeq(rows, LAMBDA r : r.hash = hash_val)
    IN  IF Len(all) > 0 THEN <<all[1]>> ELSE << >>

(* SELECT song_name FROM fingerprints WHERE hash = ? : a scan in rowid order. *)
SelectSongs(rows, hash_val) == SelectSeq(rows, LAMBDA r : r.hash = hash_val)

(* Variant: the count is set to 1 instead of incremented. *)
RECURSIVE CountResultsAssign(_, _, _)
CountResultsAssign(results, j, d) ==
    IF j > Len(results) THEN d
    ELSE CountResultsAssign(results, j + 1, DictSet(d, results[j].song_name, 1))

RECURSIVE CountResults(_, _, _)
CountResults(results, j, d) ==
    IF j > Len(results) THEN d
    ELSE CountResults(results, j + 1,
                      DictSet(d, results[j].song_name,
                              DictGet(d, results[j].song_name, 0) + 1))

(* Variant: lookup returns a set of tracks, one vote per track and token. *)
RECURSIVE DistinctSongs(_, _, _)
DistinctSongs(results, j, acc) ==
    IF j > Len(results) THEN acc
    ELSE DistinctSongs(results, j + 1,
                       IF \E k \in 1..Len(acc) : acc[k].song_name = results[j].song_name
                       THEN acc
                       ELSE Append(acc, results[j]))

RECURSIVE CountHashesDistinct(_, _, _, _)
CountHashesDistinct(rows, hs, i, d) ==
    IF i > Len(hs) THEN d
    ELSE CountHashesDistinct(rows, hs, i + 1,
             CountResults(DistinctSongs(SelectSongs(rows, hs[i]), 1, << >>), 1, d))

RECURSIVE CountHashes(_, _, _, _)
CountHashes(rows, hs, i, d) ==
    IF i > Len(hs) THEN d
    ELSE CountHashes(rows, hs, i + 1, CountResults(SelectSongs(rows, hs[i]), 1, d))

(* Variant: the last key with the largest count. *)
MaxKeyLast(d) ==
    d[CHOOSE k \in 1..Len(d) :
        /\ \A m \in 1..Len(d) : d[m][2] <= d[k][2]
        /\ \A m \in (k + 1)..Len(d) : d[m][2] < d[k][2]][1]

(* max(matched_songs, key=matched_songs.get): the first key with the largest count. *)
MaxKey(d) ==
    d[CHOOSE k \in 1..Len(d) :
        /\ \A m \in 1..Len(d) : d[m][2] <= d[k][2]
        /\ \A m \in 1..(k - 1) : d[m][2] < d[k][2]][1]

NoMatch == [text |-> "No match found.", song |-> "", confidence |-> 0]
MatchFound(name, n) == [text |-> "Match found", song |-> name, confidence |-> n]
OperationalError == [text |-> "sqlite3.OperationalError", song |-> "", confidence |-> 0]
NoResult == [text |-> "", song |-> "", confidence |-> 0]
Stored == [text |-> "Fingerprints stored successfully!", song |-> "", confidence |-> 0]
NameMissing == [text |-> "Please enter a song name.", song |-> "", confidence |-> 0]

identify_song(exists, rows, hs) ==
    IF ~exists /\ Len(hs) > 0 THEN OperationalError
    ELSE LET matched_songs == CountHashes(rows, hs, 1, << >>)
         IN  IF Len(matched_songs) > 0
             THEN MatchFound(MaxKey(matched_songs),
                             DictGet(matched_songs, MaxKey(matched_songs), 0))
             ELSE NoMatch

(* ------------------------------ the app -------------------------------- *)
VARIABLES uploaded, spectrogram, threshold, peaks, hashes,
          tableExists, fingerprints, message

vars == <<uploaded, spectrogram, threshold, peaks, hashes,
          tableExists, fingerprints, message>>

Init ==
    /\ uploaded = FALSE
    /\ spectrogram = << >>
    /\ threshold = DefaultThreshold
    /\ peaks = << >>
    /\ hashes = << >>
    /\ tableExists = FALSE
    /\ fingerprints = << >>
    /\ message = NoResult

(* The pipeline on a spectrogram: peaks above thr, then their hashes. *)
Analyze(S, thr) ==
    /\ ~uploaded
    /\ uploaded' = TRUE
    /\ spectrogram' = S
    /\ threshold' = thr
    /\ peaks' = get_peaks_from_spectrogram(S, thr)
    /\ hashes' = generate_hashes(get_peaks_from_spectrogram(S, thr))
    /\ message' = NoResult
    /\ UNCHANGED <<tableExists, fingerprints>>

(* A file is put in the uploader and the script runs the pipeline on it,
   get_peaks_from_spectrogram with its default threshold. *)
Upload(S) == Analyze(S, DefaultThreshold)

(* The file is removed from the uploader: the script stops at "if uploaded_file". *)
RemoveFile ==
    /\ uploaded
    /\ uploaded' = FALSE
    /\ spectrogram' = << >>
    /\ threshold' = DefaultThreshold
    /\ peaks' = << >>
    /\ hashes' = << >>
    /\ message' = NoResult
    /\ UNCHANGED <<tableExists, fingerprints>>

(* Button "Store Fingerprints". *)
ClickStore(name) ==
    /\ uploaded
    /\ IF name # ""
       THEN /\ Len(fingerprints) + Len(hashes) <= MaxRows
            /\ tableExists' = TRUE
            /\ fingerprints' = store_fingerprints(fingerprints, name, hashes)
            /\ message' = Stored
       ELSE /\ message' = NameMissing
            /\ UNCHANGED <<tableExists, fingerprints>>
    /\ UNCHANGED <<uploaded, spectrogram, threshold, peaks, hashes>>

(* Variant: identification also stores the query under the reported song. *)
ClickIdentifyLearning ==
    /\ uploaded
    /\ message' = identify_song(tableExists, fingerprints, hashes)
    /\ fingerprints' =
           IF message'.text = "Match found"
              /\ Len(fingerprints) + Len(hashes) <= MaxRows
           THEN store_fingerprints(fingerprints, message'.song, hashes)
           ELSE fingerprints
    /\ UNCHANGED <<uploaded, spectrogram, threshold, peaks, hashes, tableExists>>

(* Button "Identify Song". *)
ClickIdentify ==
    /\ uploaded
    /\ message' = identify_song(tableExists, fingerprints, hashes)
    /\ UNCHANGED <<uploaded, spectrogram, threshold, peaks, hashes,
                   tableExists, fingerprints>>

Next ==
    \/ \E S \in Spectrograms : Upload(S)
    \/ RemoveFile
    \/ \E name \in SongNames : ClickStore(name)
    \/ ClickIdentify

Spec == Init /\ [][Next]_vars

(* The pipeline functions alone: the arguments are drawn first, every
   spectrogram with every threshold, and the functions are then applied. *)
InitPipeline ==
    /\ uploaded = FALSE
    /\ spectrogram \in Spectrograms
    /\ threshold \in Thresholds
    /\ peaks = << >>
    /\ hashes = << >>
    /\ tableExists = FALSE
    /\ fingerprints = << >>
    /\ message = NoResult

NextPipeline == Analyze(spectrogram, threshold)

SpecPipeline == InitPipeline /\ [][NextPipeline]_vars

(* ------------------------- vocabulary of the claims -------------------- *)
Songs == SongNames \ {""}
Max(a, b) == IF a >= b THEN a ELSE b
Range(s) == {s[i] : i \in 1..Len(s)}

(* message is the value identify_song returned for the current hashes and table. *)
Identified ==
    /\ uploaded
    /\ message.text \in {"No match found.", "Match found", "sqlite3.OperationalError"}

IsMatch == Identified /\ message.text = "Match found"

(* Number of stored rows (song, h). *)
RowCount(song, h) ==
    Cardinality({k \in 1..Len(fingerprints) :
                    fingerprints[k].song_name = song /\ fingerprints[k].hash = h})

(* Votes of song for the first n query hashes: one per matching row. *)
RECURSIVE VotesUpTo(_, _)
VotesUpTo(song, n) ==
    IF n = 0 THEN 0 ELSE VotesUpTo(song, n - 1) + RowCount(song, hashes[n])

Votes(song) == VotesUpTo(song, Len(hashes))

(* Number of query tokens that appear in the track. *)
TokensIn(song) == Cardinality({i \in 1..Len(hashes) : RowCount(song, hashes[i]) > 0})

Voted == {s \in Songs : Votes(s) > 0}

(* Position of the query token that gave song its first vote, and that row's id. *)
FirstVote(song) ==
    CHOOSE i \in 1..Len(hashes) :
        /\ RowCount(song, hashes[i]) > 0
        /\ \A j \in 1..(i - 1) : RowCount(song, hashes[j]) = 0

FirstRow(song) ==
    CHOOSE k \in 1..Len(fingerprints) :
        /\ fingerprints[k].song_name = song
        /\ fingerprints[k].hash = hashes[FirstVote(song)]
        /\ \A m \in 1..(k - 1) :
               ~(fingerprints[m].song_name = song
                 /\ fingerprints[m].hash = hashes[FirstVote(song)])

(* The table ends with the rows store_fingerprints(T, hashes) appends. *)
JustStored(T) ==
    /\ tableExists
    /\ Len(fingerprints) >= Len(hashes)
    /\ \A i \in 1..Len(hashes) :
           LET r == fingerprints[Len(fingerprints) - Len(hashes) + i]
           IN  r.song_name = T /\ r.hash = hashes[i]

(* No row before those last Len(hashes) rows holds a hash of the query. *)
FreshForQuery ==
    \A k \in 1..(Len(fingerprints) - Len(hashes)) :
        fingerprints[k].hash \notin Range(hashes)

NoRepeatedHash == \A i, j \in 1..Len(hashes) : hashes[i] = hashes[j] => i = j

(* The peak lists a scan can return, and the rows one enrollment of P leaves. *)
PeakLists ==
    CHOOSE t \in {{get_peaks_from_spectrogram(S, DefaultThreshold) : S \in Spectrograms}} : TRUE

IsRunOf(Q, P) ==
    \E o \in 0..(Len(P) - Len(Q)) : \A i \in 1..Len(Q) : P[o + i] = Q[i]

EnrolledWith(T, P) ==
    LET H == generate_hashes(P)
    IN  \E o \in 0..(Len(fingerprints) - Len(H)) :
            \A i \in 1..Len(H) :
                /\ fingerprints[o + i].song_name = T
                /\ fingerprints[o + i].hash = H[i]

(* Some enrolled track contains the current peaks as a contiguous run. *)
ClipOf(T) ==
    /\ Len(peaks) >= 2
    /\ \E P \in PeakLists : IsRunOf(peaks, P) /\ EnrolledWith(T, P)

(* ------------------------------- claims -------------------------------- *)

(* C1 (as stated): after store_fingerprints(T, H), identify_song(H) reports T
   as the winner with confidence Len(H). *)
C1_SelfMatch ==
    \A T \in Songs :
        (Identified /\ JustStored(T)) => message = MatchFound(T, Len(hashes))

(* C1 (amended): for a non-empty H, after store_fingerprints(T, H) the call
   identify_song(H) returns a match, T has at least Len(H) votes and the
   reported confidence is at least Len(H); T is the winner with confidence
   exactly Len(H) when H has no repeated hash and no earlier row holds a hash
   of H. *)
C1_SelfMatchAmended ==
    \A T \in Songs :
        (Identified /\ JustStored(T) /\ Len(hashes) > 0) =>
            /\ message.text = "Match found"
            /\ Votes(T) >= Len(hashes)
            /\ message.confidence >= Len(hashes)
            /\ (NoRepeatedHash /\ FreshForQuery) =>
                   message = MatchFound(T, Len(hashes))

C1_Witness ==
    /\ Identified
    /\ JustStored("A")
    /\ Len(hashes) >= 2
    /\ NoRepeatedHash /\ FreshForQuery
    /\ message = MatchFound("A", Len(hashes))

(* C2 (as stated): if T was enrolled with the hashes of P and the query peaks
   are a contiguous run of P with at least two peaks, identify_song reports T,
   whatever else is enrolled. *)
C2_PartialClip ==
    \A T \in Songs : (Identified /\ ClipOf(T)) => message.song = T

(* C2 (amended): under the same premise identify_song returns a match, T has
   at least Len(Q) - 1 votes and the reported confidence is at least
   Len(Q) - 1; T is the winner when no other track holds a hash of the query. *)
C2_PartialClipAmended ==
    \A T \in Songs :
        (Identified /\ ClipOf(T)) =>
            /\ message.text = "Match found"
            /\ Votes(T) >= Len(peaks) - 1
            /\ message.confidence >= Len(peaks) - 1
            /\ (\A s \in Songs \ {T} : Votes(s) = 0) => message.song = T

C2_Witness ==
    /\ Identified
    /\ Len(peaks) = 2
    /\ \E P \in PeakLists :
           /\ Len(P) = 3
           /\ IsRunOf(peaks, P)
           /\ EnrolledWith("A", P)
    /\ \E k \in 1..Len(fingerprints) : fingerprints[k].song_name = "B"
    /\ message.song = "A"

(* C3: identify_song with no query hash stored (or no query hash) returns
   "No match found." in every table state, the never-created table included,
   and never ends in an error; a match needs a stored query hash. *)
C3_NoMatchIsNormal ==
    Identified =>
        /\ message # OperationalError
        /\ (\A i \in 1..Len(hashes) : \A s \in Songs : RowCount(s, hashes[i]) = 0)
               => message = NoMatch
        /\ message.text = "Match found" => Voted # {}

(* C4 (as stated): each query token gives a track at most one vote, so the
   confidence is the number of query tokens that appear in the winner and
   never exceeds Len(hashes). *)
C4_OneVotePerToken ==
    IsMatch =>
        /\ message.confidence = TokensIn(message.song)
        /\ message.confidence <= Len(hashes)

(* C4 (amended): each query token gives a track one vote per stored row
   (track, token); the confidence is the sum of those row counts over the
   query tokens, at least the number of query tokens that appear in the
   winner, and equal to it (so at most Len(hashes)) when no (track, token)
   row of the winner is stored twice. *)
C4_VotePerRow ==
    IsMatch =>
        /\ message.confidence = Votes(message.song)
        /\ message.confidence >= TokensIn(message.song)
        /\ (\A i \in 1..Len(hashes) : RowCount(message.song, hashes[i]) <= 1) =>
               /\ message.confidence = TokensIn(message.song)
               /\ message.confidence <= Len(hashes)

C4_Witness ==
    /\ IsMatch
    /\ message.confidence > Len(hashes)
    /\ message.confidence = Votes(message.song)

(* C5: generate_hashes(P) has max(0, Len(P) - 1) tokens, token i being the
   hash of (peaks[i], peaks[i+1]); no peak and one peak give no token. *)
C5_TokenCount ==
    uploaded =>
        /\ Len(hashes) = Max(0, Len(peaks) - 1)
        /\ \A i \in 1..Len(hashes) :
               hashes[i] = fingerprint_hash(peaks[i][2], peaks[i + 1][2],
                                            peaks[i + 1][1] - peaks[i][1])

C5_Witness ==
    /\ uploaded
    /\ Len(peaks) = NumFreq * NumTime
    /\ Len(hashes) = Len(peaks) - 1

(* C6: for a fixed spectrogram and thresholds t1 <= t2, the peaks at t2 are
   among the peaks at t1, so raising the threshold never adds a peak. *)
C6_ThresholdMonotone ==
    uploaded =>
        \A t \in Thresholds :
            LET other == get_peaks_from_spectrogram(spectrogram, t)
            IN  /\ t >= threshold =>
                    Range(other) \subseteq Range(peaks) /\ Len(other) <= Len(peaks)
                /\ t <= threshold =>
                    Range(peaks) \subseteq Range(other) /\ Len(peaks) <= Len(other)

C6_Witness ==
    /\ uploaded
    /\ threshold = DefaultThreshold
    /\ Len(peaks) >= 1
    /\ Len(peaks) < Len(get_peaks_from_spectrogram(spectrogram, DefaultThreshold - 10))
    /\ Len(get_peaks_from_spectrogram(spectrogram, DefaultThreshold + 10)) = 0

(* C7: a reported track has at least the votes of every other track; among
   tracks sharing the maximum it is the one whose first vote came earliest
   in query-token order (and, for the same token, from the earliest row). *)
C7_WinnerSelection ==
    IsMatch =>
        /\ message.song \in Voted
        /\ \A s \in Voted : Votes(s) <= Votes(message.song)
        /\ \A s \in Voted \ {message.song} :
               Votes(s) = Votes(message.song) =>
                   /\ FirstVote(message.song) <= FirstVote(s)
                   /\ FirstVote(message.song) = FirstVote(s) =>
                          FirstRow(message.song) < FirstRow(s)

C7_Witness ==
    /\ IsMatch
    /\ \E s \in Voted \ {message.song} :
           /\ Votes(s) = Votes(message.song)
           /\ FirstVote(message.song) < FirstVote(s)

(* C8: store_fingerprints(T, H) appends one row (T, h) for each element h of
   H, repeats included, and leaves the earlier rows unchanged. *)
C8_AppendOnly ==
    [][message' = Stored =>
          \E T \in Songs :
              fingerprints' = fingerprints \o
                  [i \in 1..Len(hashes) |->
                      [id |-> Len(fingerprints) + i, song_name |-> T,
                       hash |-> hashes[i]]]]_vars

(* The same track stored twice with the same hashes: its rows doubled. *)
C8_Witness ==
    /\ message = Stored
    /\ Len(hashes) >= 1
    /\ Len(fingerprints) = 2 * Len(hashes)
    /\ \A i \in 1..Len(hashes) :
           /\ fingerprints[i].song_name = "A"
           /\ fingerprints[i].hash = hashes[i]
           /\ fingerprints[Len(hashes) + i].song_name = "A"
           /\ fingerprints[Len(hashes) + i].hash = hashes[i]

(* C9: identify_song leaves the stored rows unchanged, and a second call
   with the same hashes and no enrollment in between returns the same result. *)
C9_ReadOnly ==
    [][Identified' =>
          /\ fingerprints' = fingerprints
          /\ tableExists' = tableExists
          /\ (Identified /\ hashes' = hashes) => message' = message]_vars

C9_Witness ==
    /\ IsMatch
    /\ Len(fingerprints) >= 2
    /\ message.confidence >= 2

(* C10: the peaks are exactly the cells strictly above the threshold, each
   once, in ascending (time, frequency) order; adjacent peaks have a time
   difference >= 0. *)
C10_ScanOrder ==
    uploaded =>
        /\ Range(peaks) = {<<t, f>> \in TimeFrames \X FreqBins :
                              spectrogram[f, t] > threshold}
        /\ \A i \in 1..(Len(peaks) - 1) :
               \/ peaks[i][1] < peaks[i + 1][1]
               \/ peaks[i][1] = peaks[i + 1][1] /\ peaks[i][2] < peaks[i + 1][2]
        /\ \A i \in 1..(Len(peaks) - 1) : peaks[i + 1][1] - peaks[i][1] >= 0

C10_Witness ==
    /\ uploaded
    /\ \E c \in FreqBins \X TimeFrames : spectrogram[c] = threshold
    /\ \E i \in 1..(Len(peaks) - 1) :
           peaks[i][1] = peaks[i + 1][1] /\ peaks[i][2] < peaks[i + 1][2]
    /\ \E i \in 1..(Len(peaks) - 1) : peaks[i][1] < peaks[i + 1][1]
====
